---- MODULE Spec2Model ----
(***************************************************************************)
(* VSCodeDeviceManager (vscode-device-cleaner.js) and the webview message  *)
(* handler that drives it (src/extension.js).                              *)
(*                                                                         *)
(* The state is the part of the filesystem the manager touches (identity   *)
(* store, telemetry database and its backups, workspace-storage            *)
(* directory), the process environment, and what one invocation produced:  *)
(* its return value, the filesystem calls it made, what it logged and what *)
(* the webview handler posted.                                             *)
(***************************************************************************)
EXTENDS Integers, Sequences, FiniteSets, TLC

VARIABLES env, storage, telemetry, backups, workspace, now,
          pc, call, ret, fsOps, logs, posted,
          refresh, uuid, mem, ui

vars == <<env, storage, telemetry, backups, workspace, now,
          pc, call, ret, fsOps, logs, posted, refresh, uuid, mem, ui>>

\* the state of a running refreshVSCodeDevice / main, of a running
\* generateNewUUID, and the storage object a running resetDeviceIdentifiers
\* holds in memory, and the webview panels
aux == << refresh, uuid, mem, ui >>

(***************************************************************************)
(* Bounds of the model.                                                    *)
(***************************************************************************)
MaxKeys == 2    \* keys in an initial identity store
MaxItems == 3   \* entries in an initial workspace-storage directory
MaxTime == 2    \* millisecond clock values Date.now() may return
MaxPanels == 3  \* webview panels created in one session
MaxOutbox == 2  \* webview messages not yet handled by the extension

(***************************************************************************)
(* JavaScript values.  Every value of the identity record is a string; the *)
(* result of reading a missing property is Undefined.                      *)
(***************************************************************************)
Undefined == "undefined"
Null == "null"

Truthy(v) == v \notin {Undefined, Null, ""}

\* a || b
Or(a, b) == IF Truthy(a) THEN a ELSE b

(***************************************************************************)
(* Keys of the identity record.  identifierKeys is the list of             *)
(* resetDeviceIdentifiers, in its order.  KeyChars spells each key so that *)
(* String.prototype.includes is computed on characters.                    *)
(***************************************************************************)
identifierKeys ==
    << "telemetry.machineId", "telemetry.devDeviceId", "telemetry.sessionId",
       "machineId", "deviceId", "sessionId" >>

IdentifierKeySet == { identifierKeys[i] : i \in DOMAIN identifierKeys }

cacheKey(userId) == "scoreInfo_" \o userId

UserIds == { Undefined, "", "user42", "user7" }

StoredCacheKeys == { cacheKey("user42") }

AllKeys == IdentifierKeySet \cup StoredCacheKeys

KeyChars ==
    [ k \in IdentifierKeySet |->
        CASE k = "telemetry.machineId" ->
               << "t","e","l","e","m","e","t","r","y",".",
                  "m","a","c","h","i","n","e","I","d" >>
          [] k = "telemetry.devDeviceId" ->
               << "t","e","l","e","m","e","t","r","y",".",
                  "d","e","v","D","e","v","i","c","e","I","d" >>
          [] k = "telemetry.sessionId" ->
               << "t","e","l","e","m","e","t","r","y",".",
                  "s","e","s","s","i","o","n","I","d" >>
          [] k = "machineId" -> << "m","a","c","h","i","n","e","I","d" >>
          [] k = "deviceId"  -> << "d","e","v","i","c","e","I","d" >>
          [] k = "sessionId" -> << "s","e","s","s","i","o","n","I","d" >> ]

machineChars == << "m","a","c","h","i","n","e" >>
deviceChars  == << "d","e","v","i","c","e" >>

\* s.includes(sub): case-sensitive substring search
Includes(s, sub) ==
    \E i \in 1..(Len(s) - Len(sub) + 1) : SubSeq(s, i, i + Len(sub) - 1) = sub

LowerChar(c) == IF c = "D" THEN "d" ELSE IF c = "I" THEN "i" ELSE c

LowerChars(s) == [ i \in DOMAIN s |-> LowerChar(s[i]) ]

(***************************************************************************)
(* Files.  The identity store is absent, present with content that is not  *)
(* JSON ("garbage"), or present with a JSON object: rec is the object, fmt *)
(* the layout of its text (JSON.stringify(_, null, 2) writes "pretty").    *)
(***************************************************************************)
EmptyRec == [ k \in {} |-> "" ]

AbsentFile  == [ kind |-> "absent",  fmt |-> "none", rec |-> EmptyRec ]
GarbageFile == [ kind |-> "garbage", fmt |-> "none", rec |-> EmptyRec ]
JsonFile(fmt, rec) == [ kind |-> "json", fmt |-> fmt, rec |-> rec ]

\* fs.existsSync
existsSync(file) == file.kind # "absent"

ParseNeverThrows(file) == FALSE

\* JSON.parse(fs.readFileSync(path, 'utf8')): the object, or a SyntaxError
ParseThrows(file) == file.kind # "json"
JSONparse(file) == file.rec

\* JSON.stringify(storage, null, 2) as written by fs.writeFileSync
JSONstringify(rec) == JsonFile("pretty", rec)

\* storage[key]
Get(rec, key) == IF key \in DOMAIN rec THEN rec[key] ELSE Undefined

\* storage[key] = value
Put(rec, key, value) ==
    [ k \in DOMAIN rec \cup {key} |-> IF k = key THEN value ELSE rec[k] ]

\* delete storage[key]
Delete(rec, key) == [ k \in DOMAIN rec \ {key} |-> rec[k] ]

InitialValues(k) == { "", "old:" \o k }

KeySets == { S \in SUBSET AllKeys : Cardinality(S) <= MaxKeys }

InitialRecs ==
    UNION { { r \in [ S -> UNION { InitialValues(k) : k \in S } ] :
                \A k \in S : r[k] \in InitialValues(k) } : S \in KeySets }

StoreFiles ==
    { AbsentFile, GarbageFile }
      \cup { JsonFile(f, r) : f \in { "compact", "pretty" }, r \in InitialRecs }

(***************************************************************************)
(* Application locator.                                                    *)
(***************************************************************************)
Markers == { "VSCODE_PID", "WINDSURF_PID", "CURSOR_PID" }

EnvValues == { Undefined, "", "4711" }

homeDir == "/home/user"

supportedApps ==
    [ a \in { "Code", "Windsurf", "Cursor" } |->
        CASE a = "Code" -> ".vscode"
          [] a = "Windsurf" -> ".windsurf"
          [] a = "Cursor" -> ".cursor" ]

detectVSCodeVariant(e) ==
    IF Truthy(e["VSCODE_PID"]) THEN "Code"
    ELSE IF Truthy(e["WINDSURF_PID"]) THEN "Windsurf"
    ELSE IF Truthy(e["CURSOR_PID"]) THEN "Cursor"
    ELSE "Code"

\* path.join is modelled by the sequence of path segments
getUserDataPath(appName, e) ==
    LET app == IF Truthy(appName) THEN appName ELSE detectVSCodeVariant(e)
        configDir == IF app \in DOMAIN supportedApps
                     THEN supportedApps[app] ELSE ".vscode"
    IN  << homeDir, configDir >>

getMachineIdPath(appName, e) ==
    getUserDataPath(appName, e) \o << "User", "globalStorage", "storage.json" >>

getTelemetryPath(appName, e) ==
    getUserDataPath(appName, e) \o << "User", "globalStorage", "state.vscdb" >>

getWorkspaceStatePath(appName, e) ==
    getUserDataPath(appName, e) \o << "User", "workspaceStorage" >>

(***************************************************************************)
(* What one invocation produces.                                           *)
(***************************************************************************)
NoPath == << >>

NoRet == [ kind |-> "none", machineId |-> Undefined, deviceId |-> Undefined,
           sessionId |-> Undefined, storagePath |-> NoPath ]

\* { machineId, deviceId, sessionId }
Triple(m, d, s) == [ kind |-> "triple", machineId |-> m, deviceId |-> d,
                     sessionId |-> s, storagePath |-> NoPath ]

\* { machineId, deviceId, sessionId, storagePath }
Info(m, d, s, p) == [ kind |-> "info", machineId |-> m, deviceId |-> d,
                      sessionId |-> s, storagePath |-> p ]

RetNull      == [ NoRet EXCEPT !.kind = "null" ]
RetUndefined == [ NoRet EXCEPT !.kind = "undefined" ]
Thrown       == [ NoRet EXCEPT !.kind = "throw" ]

\* a completed filesystem mutation
FsOp(fn, path) == [ fn |-> fn, path |-> path ]

\* a logger call
Log(level, msg, arg, n) == [ level |-> level, msg |-> msg, arg |-> arg, n |-> n ]

Outcome(file, r, ops, lg) == [ file |-> file, ret |-> r, ops |-> ops, logs |-> lg ]

(***************************************************************************)
(* Identifier generator.  generateNewUUID draws at random; a call is       *)
(* modelled by the choice of one of NewIds.                                *)
(***************************************************************************)
NewIds == { "uuid-a", "uuid-b", "uuid-c" }

(***************************************************************************)
(* Faults of the filesystem calls on the identity store: readFileSync      *)
(* throws; writeFileSync throws leaving the file as it was; writeFileSync  *)
(* throws after the file has been truncated.                               *)
(***************************************************************************)
StoreFaults == { "none", "read", "write", "writeTruncated" }

\* fs.writeFileSync(storagePath, text) under a fault
WriteFile(file, text, fault) ==
    CASE fault = "write" -> file
      [] fault = "writeTruncated" -> GarbageFile
      [] OTHER -> text

WriteOps(path, fault) ==
    IF fault = "write" THEN << >> ELSE << FsOp("writeFileSync", path) >>

(***************************************************************************)
(* resetDeviceIdentifiers                                                  *)
(***************************************************************************)
NewIdForIgnoringCase(key, newMachineId, newDeviceId, newSessionId) ==
    IF Includes(LowerChars(KeyChars[key]), machineChars) THEN newMachineId
    ELSE IF Includes(LowerChars(KeyChars[key]), deviceChars) THEN newDeviceId
    ELSE newSessionId

\* key.includes('machine') ? newMachineId :
\* key.includes('device') ? newDeviceId : newSessionId
NewIdFor(key, newMachineId, newDeviceId, newSessionId) ==
    IF Includes(KeyChars[key], machineChars) THEN newMachineId
    ELSE IF Includes(KeyChars[key], deviceChars) THEN newDeviceId
    ELSE newSessionId

RECURSIVE ResetKeys(_, _, _, _, _)
\* identifierKeys.forEach(key => { if (storage[key]) storage[key] = ... })
ResetKeys(rec, i, m, d, s) ==
    IF i > Len(identifierKeys) THEN rec
    ELSE LET key == identifierKeys[i]
         IN  IF Truthy(Get(rec, key))
             THEN ResetKeys(Put(rec, key, NewIdFor(key, m, d, s)), i + 1, m, d, s)
             ELSE ResetKeys(rec, i + 1, m, d, s)

ResetLogs(rec) ==
    LET present == SelectSeq(identifierKeys, LAMBDA k : Truthy(Get(rec, k)))
    IN  [ i \in DOMAIN present |-> Log("info", "Reset", present[i], 0) ]

resetDeviceIdentifiersCreatingKeys(file, e, m, d, s, fault) ==
    LET storagePath == getMachineIdPath(Null, e)
        err == << Log("error", "Error resetting device identifiers:", "", 0) >>
    IN  IF ~existsSync(file) THEN Outcome(file, Triple(m, d, s), << >>, << >>)
        ELSE IF fault = "read" \/ ParseThrows(file)
        THEN Outcome(file, Thrown, << >>, err)
        ELSE LET rec == JSONparse(file)
                 upd == [ k \in DOMAIN rec \cup IdentifierKeySet |->
                            IF k \in IdentifierKeySet
                            THEN NewIdFor(k, m, d, s) ELSE rec[k] ]
             IN  IF fault = "none"
                 THEN Outcome(JSONstringify(upd), Triple(m, d, s),
                              WriteOps(storagePath, fault), << >>)
                 ELSE Outcome(WriteFile(file, JSONstringify(upd), fault), Thrown,
                              WriteOps(storagePath, fault), err)

resetDeviceIdentifiers(file, e, m, d, s, fault) ==
    LET storagePath == getMachineIdPath(Null, e)
        err == << Log("error", "Error resetting device identifiers:", "", 0) >>
    IN  IF ~existsSync(file) THEN Outcome(file, Triple(m, d, s), << >>, << >>)
        ELSE IF fault = "read" \/ ParseThrows(file)
        THEN Outcome(file, Thrown, << >>, err)
        ELSE LET rec == JSONparse(file)
                 upd == ResetKeys(rec, 1, m, d, s)
             IN  IF fault = "none"
                 THEN Outcome(JSONstringify(upd), Triple(m, d, s),
                              WriteOps(storagePath, fault),
                              ResetLogs(rec) \o
                                << Log("info", "Device identifiers reset successfully", "", 0) >>)
                 ELSE Outcome(WriteFile(file, JSONstringify(upd), fault), Thrown,
                              WriteOps(storagePath, fault), ResetLogs(rec) \o err)

(***************************************************************************)
(* clearUserCache                                                          *)
(***************************************************************************)
clearUserCacheUnchecked(file, e, userId, fault) ==
    LET storagePath == getMachineIdPath(Null, e)
        err == << Log("error", "Error clearing cache:", "", 0) >>
    IN  IF ~Truthy(userId) THEN Outcome(file, RetUndefined, << >>, << >>)
        ELSE IF fault = "read" \/ ParseThrows(file)
        THEN Outcome(file, RetUndefined, << >>, err)
        ELSE LET rec == JSONparse(file)
                 key == cacheKey(userId)
             IN  IF ~Truthy(Get(rec, key))
                 THEN Outcome(file, RetUndefined, << >>, << >>)
                 ELSE Outcome(WriteFile(file, JSONstringify(Delete(rec, key)), fault),
                              RetUndefined, WriteOps(storagePath, fault),
                              IF fault = "none" THEN << >> ELSE err)

clearUserCache(file, e, userId, fault) ==
    LET storagePath == getMachineIdPath(Null, e)
        err == << Log("error", "Error clearing cache:", "", 0) >>
    IN  IF ~Truthy(userId) THEN Outcome(file, RetUndefined, << >>, << >>)
        ELSE IF ~existsSync(file) THEN Outcome(file, RetUndefined, << >>, << >>)
        ELSE IF fault = "read" \/ ParseThrows(file)
        THEN Outcome(file, RetUndefined, << >>, err)
        ELSE LET rec == JSONparse(file)
                 key == cacheKey(userId)
             IN  IF ~Truthy(Get(rec, key))
                 THEN Outcome(file, RetUndefined, << >>, << >>)
                 ELSE Outcome(WriteFile(file, JSONstringify(Delete(rec, key)), fault),
                              RetUndefined, WriteOps(storagePath, fault),
                              IF fault = "none"
                              THEN << Log("info", "Cleared user's scoreInfo cache for ID:",
                                          userId, 0) >>
                              ELSE err)

(***************************************************************************)
(* getCurrentDeviceInfo                                                    *)
(***************************************************************************)
getCurrentDeviceInfo(file, e, fault) ==
    LET storagePath == getMachineIdPath(Null, e)
        err == << Log("error", "Error reading device info:", "", 0) >>
    IN  IF ~existsSync(file) THEN Outcome(file, RetNull, << >>, << >>)
        ELSE IF fault = "read" \/ ParseThrows(file)
        THEN Outcome(file, RetNull, << >>, err)
        ELSE LET rec == JSONparse(file)
             IN  Outcome(file,
                         Info(Or(Get(rec, "telemetry.machineId"), Get(rec, "machineId")),
                              Or(Get(rec, "telemetry.devDeviceId"), Get(rec, "deviceId")),
                              Or(Get(rec, "telemetry.sessionId"), Get(rec, "sessionId")),
                              storagePath),
                         << >>, << >>)

(***************************************************************************)
(* Telemetry database and its backups.  The database is an opaque blob: a  *)
(* content, or "absent".  backups[t] is the file at                        *)
(* <telemetryPath>.backup.<t>; a copy that fails may leave it "partial".   *)
(***************************************************************************)
TelemetryContents == { "db-1", "db-2" }

Times == 1..MaxTime

NoBackups == [ t \in Times |-> "absent" ]

backupPathNoTimestamp(telemetryPath, t) ==
    [ telemetryPath EXCEPT ![Len(telemetryPath)] = @ \o ".backup" ]

\* telemetryPath + '.backup.' + Date.now()
backupPath(telemetryPath, t) ==
    [ telemetryPath EXCEPT ![Len(telemetryPath)] = @ \o ".backup." \o ToString(t) ]

CopyOutcomes == { "ok", "fail", "failPartial" }

\* fs.copyFileSync(telemetryPath, backupPath): the destination afterwards
copyFileSync(src, dst, outcome) ==
    CASE outcome = "ok" -> src
      [] outcome = "failPartial" -> "partial"
      [] OTHER -> dst

AfterCopyAlwaysUnlink(outcome) == "unlink"

\* the try block of cleanTelemetryData: unlinkSync runs only if copyFileSync
\* returned; a throw goes to the catch
AfterCopy(outcome) == IF outcome = "ok" THEN "unlink" ELSE "done"

(***************************************************************************)
(* Workspace storage: whether the directory exists and its entries in      *)
(* readdirSync order.  An entry is a directory, a plain file, a directory  *)
(* rmSync cannot remove ("lockedDir") or a symbolic link whose target is   *)
(* missing, on which statSync throws ("brokenLink"); "removed" once gone.  *)
(***************************************************************************)
ItemKinds == { "dir", "file", "lockedDir", "brokenLink" }

NoWorkspace == [ exists |-> FALSE, items |-> << >> ]

Workspaces ==
    { NoWorkspace }
      \cup { [ exists |-> TRUE, items |-> it ] :
               it \in UNION { [ 1..n -> ItemKinds ] : n \in 0..MaxItems } }

itemPath(workspaceStoragePath, i) ==
    workspaceStoragePath \o << "item" \o ToString(i) >>

StatThrows(kind) == kind = "brokenLink"

isDirectoryAlways(kind) == kind # "removed"

\* fs.statSync(itemPath).isDirectory()
isDirectory(kind) == kind \in { "dir", "lockedDir" }

RmThrows(kind) == kind = "lockedDir"

LoopResult(items, count, ops, threw) ==
    [ items |-> items, count |-> count, ops |-> ops, threw |-> threw ]

RECURSIVE ClearItems(_, _, _, _, _)
\* items.forEach(item => { if (statSync(..).isDirectory()) { rmSync(..); clearedCount++ } })
ClearItems(items, i, clearedCount, ops, wsPath) ==
    IF i > Len(items) THEN LoopResult(items, clearedCount, ops, FALSE)
    ELSE IF StatThrows(items[i]) THEN LoopResult(items, clearedCount, ops, TRUE)
    ELSE IF isDirectory(items[i])
         THEN IF RmThrows(items[i])
              THEN LoopResult(items, clearedCount, ops, TRUE)
              ELSE ClearItems([ items EXCEPT ![i] = "removed" ], i + 1,
                              clearedCount + 1,
                              Append(ops, FsOp("rmSync", itemPath(wsPath, i))),
                              wsPath)
         ELSE ClearItems(items, i + 1, clearedCount, ops, wsPath)

clearWorkspaceStorage(ws, e) ==
    LET wsPath == getWorkspaceStatePath(Null, e)
    IN  IF ~ws.exists THEN Outcome(ws, RetUndefined, << >>, << >>)
        ELSE LET r == ClearItems(ws.items, 1, 0, << >>, wsPath)
             IN  Outcome([ ws EXCEPT !.items = r.items ], RetUndefined, r.ops,
                         IF r.threw
                         THEN << Log("error", "Error clearing workspace storage:", "", 0) >>
                         ELSE << Log("info", "Cleared workspace storage items", "", r.count) >>)

(***************************************************************************)
(* Webview message handler, case 'resetDeviceIds'.                         *)
(***************************************************************************)
Post(command, data, text) ==
    [ via |-> "postMessage", command |-> command, data |-> data, text |-> text ]

Notify(via, text) ==
    [ via |-> via, command |-> "", data |-> NoRet, text |-> text ]

NoStorageMessage ==
    "Device reset completed, but no storage file was found to update"

\* if (result): an object is truthy, null and undefined are not
TruthyRet(r) == r.kind \in { "triple", "info" }

handleResetDeviceIds(result) ==
    IF result.kind = "throw"
    THEN << Post("error", NoRet, "error.message"),
            Notify("showErrorMessage", "Error resetting device IDs: error.message") >>
    ELSE IF TruthyRet(result)
    THEN << Post("deviceReset", result, ""),
            Notify("showInformationMessage", "Device identifiers reset successfully!") >>
    ELSE << Post("deviceReset", NoRet, NoStorageMessage),
            Notify("showWarningMessage", NoStorageMessage) >>

(***************************************************************************)
(* Webview message handler, case 'getCurrentDeviceInfo'.                   *)
(***************************************************************************)
NoInfoMessage == "No device information found in VS Code storage"

\* fallbackInfo
FallbackInfo(e) ==
    [ kind |-> "fallback", message |-> NoInfoMessage,
      storagePath |-> getMachineIdPath(Null, e),
      variant |-> detectVSCodeVariant(e),
      userDataPath |-> getUserDataPath(Null, e) ]

handleGetCurrentDeviceInfoStrict(deviceInfo, e) ==
    IF TruthyRet(deviceInfo)
    THEN << Post("deviceInfo", deviceInfo, "") >>
    ELSE << Post("error", NoRet, "error.message") >>

handleGetCurrentDeviceInfo(deviceInfo, e) ==
    IF deviceInfo.kind = "throw"
    THEN << Post("error", NoRet, "error.message") >>
    ELSE IF TruthyRet(deviceInfo)
    THEN << Post("deviceInfo", deviceInfo, "") >>
    ELSE << Post("deviceInfo", FallbackInfo(e), "") >>

(***************************************************************************)
(* Initial states: the filesystem and environment an invocation finds.     *)
(* Each family varies one part of them.                                    *)
(***************************************************************************)
NoResults == [ keys |-> {}, identifiers |-> NoRet ]

NoOptions ==
    [ f \in { "resetIdentifiers", "cleanTelemetry", "clearWorkspace", "clearCache" }
        |-> Undefined ]

\* no refreshVSCodeDevice / main is running
NoRefresh == [ caller |-> "none", args |-> {}, options |-> NoOptions, step |-> 0,
               results |-> NoResults, started |-> << >> ]

\* no generateNewUUID is running
NoUuid == [ pos |-> 0, ch |-> "" ]

\* no storage object is held in memory
NoMem == [ loaded |-> AbsentFile, rec |-> EmptyRec, ids |-> NoRet, host |-> AbsentFile ]

\* no webview panel has been created
NoUi == [ currentPanel |-> 0, panels |-> << >>, outbox |-> << >>, dialog |-> "none" ]

NoCall == [ op |-> "none", userId |-> Undefined, backupAt |-> 0 ]

Call(op) == [ NoCall EXCEPT !.op = op ]

EnvNone == [ m \in Markers |-> Undefined ]

Idle ==
    /\ pc = "idle"
    /\ call = NoCall
    /\ ret = NoRet
    /\ fsOps = << >>
    /\ logs = << >>
    /\ posted = << >>
    /\ refresh = NoRefresh
    /\ uuid = NoUuid
    /\ mem = NoMem
    /\ ui = NoUi

InitStore ==
    /\ env = EnvNone
    /\ storage \in StoreFiles
    /\ telemetry = "absent"
    /\ backups = NoBackups
    /\ workspace = NoWorkspace
    /\ now = 1

InitTelemetry ==
    /\ env = EnvNone
    /\ storage = AbsentFile
    /\ telemetry \in { "absent" } \cup TelemetryContents
    /\ backups \in [ Times -> { "absent" } \cup TelemetryContents ]
    /\ workspace = NoWorkspace
    /\ now \in Times

InitWorkspace ==
    /\ env = EnvNone
    /\ storage = AbsentFile
    /\ telemetry = "absent"
    /\ backups = NoBackups
    /\ workspace \in Workspaces
    /\ now = 1

InitEnv ==
    /\ env \in [ Markers -> EnvValues ]
    /\ storage \in { AbsentFile,
                     JsonFile("compact", [ k \in { "machineId" } |-> "old:machineId" ]) }
    /\ telemetry \in { "absent", "db-1" }
    /\ backups = NoBackups
    /\ workspace \in { NoWorkspace, [ exists |-> TRUE, items |-> << "dir" >> ] }
    /\ now = 1

Init == Idle /\ (InitStore \/ InitTelemetry \/ InitWorkspace \/ InitEnv)

(***************************************************************************)
(* Operations.  One invocation runs from "idle" to "done".                 *)
(***************************************************************************)
StoreOnly == UNCHANGED << env, telemetry, backups, workspace, now, aux >>

ResetDeviceIdentifiers ==
    /\ pc = "idle"
    /\ \E m \in NewIds, d \in NewIds, s \in NewIds, fault \in StoreFaults :
         LET o == resetDeviceIdentifiers(storage, env, m, d, s, fault)
         IN  /\ storage' = o.file
             /\ ret' = o.ret
             /\ fsOps' = o.ops
             /\ logs' = o.logs
    /\ call' = Call("resetDeviceIdentifiers")
    /\ pc' = "done"
    /\ posted' = posted
    /\ StoreOnly

HandleResetDeviceIds ==
    /\ pc = "idle"
    /\ \E m \in NewIds, d \in NewIds, s \in NewIds, fault \in StoreFaults :
         LET o == resetDeviceIdentifiers(storage, env, m, d, s, fault)
         IN  /\ storage' = o.file
             /\ ret' = o.ret
             /\ fsOps' = o.ops
             /\ logs' = o.logs
             /\ posted' = handleResetDeviceIds(o.ret)
    /\ call' = Call("handleMessage:resetDeviceIds")
    /\ pc' = "done"
    /\ StoreOnly

ClearUserCache ==
    /\ pc = "idle"
    /\ \E userId \in UserIds, fault \in StoreFaults :
         LET o == clearUserCache(storage, env, userId, fault)
         IN  /\ storage' = o.file
             /\ ret' = o.ret
             /\ fsOps' = o.ops
             /\ logs' = o.logs
             /\ call' = [ Call("clearUserCache") EXCEPT !.userId = userId ]
    /\ pc' = "done"
    /\ posted' = posted
    /\ StoreOnly

GetCurrentDeviceInfo ==
    /\ pc = "idle"
    /\ \E fault \in { "none", "read" } :
         LET o == getCurrentDeviceInfo(storage, env, fault)
         IN  /\ storage' = o.file
             /\ ret' = o.ret
             /\ fsOps' = o.ops
             /\ logs' = o.logs
    /\ call' = Call("getCurrentDeviceInfo")
    /\ pc' = "done"
    /\ posted' = posted
    /\ StoreOnly

HandleGetCurrentDeviceInfo ==
    /\ pc = "idle"
    /\ \E fault \in { "none", "read" } :
         LET o == getCurrentDeviceInfo(storage, env, fault)
         IN  /\ storage' = o.file
             /\ ret' = o.ret
             /\ fsOps' = o.ops
             /\ logs' = o.logs
             /\ posted' = handleGetCurrentDeviceInfo(o.ret, env)
    /\ call' = Call("handleMessage:getCurrentDeviceInfo")
    /\ pc' = "done"
    /\ StoreOnly

\* the value detectVSCodeVariant returns
Variant(app) == [ kind |-> "variant", variant |-> app ]

DetectVSCodeVariant ==
    /\ pc = "idle"
    /\ ret' = Variant(detectVSCodeVariant(env))
    /\ call' = Call("detectVSCodeVariant")
    /\ pc' = "done"
    /\ UNCHANGED << storage, fsOps, logs, posted >>
    /\ StoreOnly

\* cleanTelemetryData up to the existsSync test and the choice of backupPath
CleanTelemetryData ==
    /\ pc = "idle"
    /\ IF telemetry # "absent"
       THEN /\ call' = [ Call("cleanTelemetryData") EXCEPT !.backupAt = now ]
            /\ pc' = "copy"
            /\ ret' = ret
       ELSE /\ call' = Call("cleanTelemetryData")
            /\ pc' = "done"
            /\ ret' = RetUndefined
    /\ UNCHANGED << env, storage, telemetry, backups, workspace, now,
                    fsOps, logs, posted, aux >>

\* fs.copyFileSync(telemetryPath, backupPath)
CleanTelemetryCopy ==
    /\ pc = "copy"
    /\ \E outcome \in CopyOutcomes :
         LET t == call.backupAt
             dst == copyFileSync(telemetry, backups[t], outcome)
         IN  /\ backups' = [ backups EXCEPT ![t] = dst ]
             /\ fsOps' = IF outcome = "fail" THEN fsOps
                         ELSE Append(fsOps, FsOp("copyFileSync",
                                backupPath(getTelemetryPath(Null, env), t)))
             /\ pc' = AfterCopy(outcome)
             /\ logs' = IF outcome = "ok" THEN logs
                        ELSE Append(logs, Log("error", "Error cleaning telemetry:", "", 0))
             /\ ret' = IF outcome = "ok" THEN ret ELSE RetUndefined
    /\ UNCHANGED << env, storage, telemetry, workspace, now, call, posted, aux >>

\* fs.unlinkSync(telemetryPath), then the two info lines
CleanTelemetryUnlink ==
    /\ pc = "unlink"
    /\ \E ok \in BOOLEAN :
         IF ok
         THEN /\ telemetry' = "absent"
              /\ fsOps' = Append(fsOps, FsOp("unlinkSync", getTelemetryPath(Null, env)))
              /\ logs' = logs \o << Log("info", "Telemetry data cleared", "", 0),
                                    Log("info", "Backup created at:", "", call.backupAt) >>
         ELSE /\ telemetry' = telemetry
              /\ fsOps' = fsOps
              /\ logs' = Append(logs, Log("error", "Error cleaning telemetry:", "", 0))
    /\ ret' = RetUndefined
    /\ pc' = "done"
    /\ UNCHANGED << env, storage, backups, workspace, now, call, posted, aux >>

ClearWorkspaceStorage ==
    /\ pc = "idle"
    /\ LET o == clearWorkspaceStorage(workspace, env)
       IN  /\ workspace' = o.file
           /\ ret' = o.ret
           /\ fsOps' = o.ops
           /\ logs' = o.logs
    /\ call' = Call("clearWorkspaceStorage")
    /\ pc' = "done"
    /\ UNCHANGED << env, storage, telemetry, backups, now, posted, aux >>

Next ==
    \/ ResetDeviceIdentifiers
    \/ HandleResetDeviceIds
    \/ ClearUserCache
    \/ GetCurrentDeviceInfo
    \/ HandleGetCurrentDeviceInfo
    \/ DetectVSCodeVariant
    \/ CleanTelemetryData
    \/ CleanTelemetryCopy
    \/ CleanTelemetryUnlink
    \/ ClearWorkspaceStorage

Spec == Init /\ [][Next]_vars

(***************************************************************************)
(* refreshVSCodeDevice and the command-line entry point main.  The methods *)
(* refresh awaits contain no await of their own, so each sub-operation     *)
(* runs to completion in one step; refresh.step is the position in         *)
(* refreshOrder of the next `if`, refresh.started the calls made so far,   *)
(* refresh.results the object `results`.                                   *)
(***************************************************************************)
OptionNames == { "resetIdentifiers", "cleanTelemetry", "clearWorkspace", "clearCache" }

OptionValues == { Undefined, "true", "false" }

\* const { resetIdentifiers = true, cleanTelemetry = true,
\*         clearWorkspace = false, clearCache = true } = options
defaults ==
    [ resetIdentifiers |-> "true", cleanTelemetry |-> "true",
      clearWorkspace |-> "false", clearCache |-> "true" ]

Flag(options, f) ==
    IF options[f] = Undefined THEN defaults[f] = "true" ELSE options[f] = "true"

refreshOrderTelemetryFirst ==
    << "cleanTelemetry", "resetIdentifiers", "clearWorkspace", "clearCache" >>

\* the order of the four `if` statements in the try block
refreshOrder ==
    << "resetIdentifiers", "cleanTelemetry", "clearWorkspace", "clearCache" >>

AtStep(name) ==
    /\ pc = "refresh"
    /\ refresh.step \in DOMAIN refreshOrder
    /\ refreshOrder[refresh.step] = name

\* the value refresh returns is the object held in refresh.results
RetResults == [ NoRet EXCEPT !.kind = "results" ]

\* cleanTelemetryData as one call: the telemetry file, its backups, the fs
\* calls and the log lines afterwards
cleanTelemetryData(tel, bks, e, t, outcome, unlinkOk) ==
    LET telemetryPath == getTelemetryPath(Null, e)
        err == << Log("error", "Error cleaning telemetry:", "", 0) >>
        copied == [ bks EXCEPT ![t] = copyFileSync(tel, bks[t], outcome) ]
        copyOp == IF outcome = "fail" THEN << >>
                  ELSE << FsOp("copyFileSync", backupPath(telemetryPath, t)) >>
    IN  IF tel = "absent"
        THEN [ telemetry |-> tel, backups |-> bks, ops |-> << >>, logs |-> << >> ]
        ELSE IF AfterCopy(outcome) # "unlink" \/ ~unlinkOk
        THEN [ telemetry |-> tel, backups |-> copied, ops |-> copyOp, logs |-> err ]
        ELSE [ telemetry |-> "absent", backups |-> copied,
               ops |-> Append(copyOp, FsOp("unlinkSync", telemetryPath)),
               logs |-> << Log("info", "Telemetry data cleared", "", 0),
                           Log("info", "Backup created at:", "", t) >> ]

\* the three generateNewUUID results of one resetDeviceIdentifiers call
IdDraws == { << "uuid-a", "uuid-b", "uuid-c" >>, << "uuid-b", "uuid-b", "uuid-b" >> }

CliArgs == { "--reset", "-r", "--info", "-i", "--telemetry", "--workspace" }

JsBool(b) == IF b THEN "true" ELSE "false"

mainResetsOnAnyFlag(args) ==
    "--reset" \in args \/ "-r" \in args \/ "--telemetry" \in args \/ "--workspace" \in args

\* args.includes('--reset') || args.includes('-r')
mainResets(args) == "--reset" \in args \/ "-r" \in args

\* the options object main passes to refreshVSCodeDevice
mainOptions(args) ==
    [ resetIdentifiers |-> "true",
      cleanTelemetry |-> JsBool("--telemetry" \in args),
      clearWorkspace |-> JsBool("--workspace" \in args),
      clearCache |-> "true" ]

StartLog == Log("info", "Starting VS Code device refresh...", "", 0)

InitRefresh ==
    /\ Idle
    /\ env = EnvNone
    /\ storage \in { AbsentFile, GarbageFile,
                     JsonFile("compact", [ k \in { "machineId" } |-> "old:machineId" ]) }
    /\ telemetry \in { "absent", "db-1" }
    /\ backups = NoBackups
    /\ workspace \in { NoWorkspace,
                       [ exists |-> TRUE, items |-> << "dir", "file" >> ],
                       [ exists |-> TRUE, items |-> << "lockedDir", "dir" >> ] }
    /\ now = 1

\* refreshVSCodeDevice(null, options) up to the try block
RefreshVSCodeDevice ==
    /\ pc = "idle"
    /\ \E options \in [ OptionNames -> OptionValues ] :
         refresh' = [ NoRefresh EXCEPT !.caller = "direct", !.options = options,
                                       !.step = 1 ]
    /\ call' = Call("refreshVSCodeDevice")
    /\ logs' = << StartLog >>
    /\ pc' = "refresh"
    /\ UNCHANGED << env, storage, telemetry, backups, workspace, now, ret, fsOps,
                    posted, uuid, mem, ui >>

\* main: getCurrentDeviceInfo, then the branch on the arguments
Main ==
    /\ pc = "idle"
    /\ \E args \in SUBSET CliArgs, fault \in { "none", "read" } :
         LET o == getCurrentDeviceInfo(storage, env, fault)
         IN  /\ storage' = o.file
             /\ fsOps' = o.ops
             /\ ret' = o.ret
             /\ IF mainResets(args)
                THEN /\ refresh' = [ NoRefresh EXCEPT !.caller = "main", !.args = args,
                                                      !.options = mainOptions(args),
                                                      !.step = 1 ]
                     /\ logs' = Append(o.logs, StartLog)
                     /\ pc' = "refresh"
                ELSE /\ refresh' = [ NoRefresh EXCEPT !.caller = "main", !.args = args ]
                     /\ logs' = o.logs
                     /\ pc' = "done"
    /\ call' = Call("main")
    /\ UNCHANGED << env, telemetry, backups, workspace, now, posted, uuid, mem, ui >>

\* the end of one `if` of the try block: the next `if`, or after the last
\* one the success line and `return results`
StepDone(name, ran, results, lg) ==
    /\ refresh' = [ refresh EXCEPT !.step = @ + 1, !.results = results,
                                   !.started = IF ran THEN Append(@, name) ELSE @ ]
    /\ IF refresh.step = Len(refreshOrder)
       THEN /\ pc' = "done"
            /\ ret' = RetResults
            /\ logs' = logs \o lg \o
                 << Log("info", "VS Code device refresh completed successfully", "", 0) >>
       ELSE /\ pc' = "refresh"
            /\ ret' = ret
            /\ logs' = logs \o lg

\* if (resetIdentifiers) results.identifiers = await this.resetDeviceIdentifiers(appName)
RefreshResetIdentifiers ==
    /\ AtStep("resetIdentifiers")
    /\ IF Flag(refresh.options, "resetIdentifiers")
       THEN \E ids \in IdDraws, fault \in StoreFaults :
              LET o == resetDeviceIdentifiers(storage, env, ids[1], ids[2], ids[3], fault)
              IN  /\ storage' = o.file
                  /\ fsOps' = fsOps \o o.ops
                  /\ IF o.ret.kind = "throw"
                     THEN /\ refresh' = [ refresh EXCEPT
                                            !.started = Append(@, "resetIdentifiers") ]
                          /\ logs' = logs \o o.logs \o
                               << Log("error", "Error during device refresh:", "", 0) >>
                          /\ ret' = Thrown
                          /\ pc' = "done"
                     ELSE StepDone("resetIdentifiers", TRUE,
                                   [ keys |-> refresh.results.keys \cup { "identifiers" },
                                     identifiers |-> o.ret ],
                                   o.logs)
       ELSE /\ StepDone("resetIdentifiers", FALSE, refresh.results, << >>)
            /\ UNCHANGED << storage, fsOps >>
    /\ UNCHANGED << env, telemetry, backups, workspace, now, call, posted, uuid, mem, ui >>

\* if (cleanTelemetry) { await this.cleanTelemetryData(appName); results.telemetryCleared = true }
RefreshCleanTelemetry ==
    /\ AtStep("cleanTelemetry")
    /\ IF Flag(refresh.options, "cleanTelemetry")
       THEN \E outcome \in CopyOutcomes, unlinkOk \in BOOLEAN :
              LET o == cleanTelemetryData(telemetry, backups, env, now, outcome, unlinkOk)
              IN  /\ telemetry' = o.telemetry
                  /\ backups' = o.backups
                  /\ fsOps' = fsOps \o o.ops
                  /\ StepDone("cleanTelemetry", TRUE,
                              [ refresh.results EXCEPT !.keys = @ \cup { "telemetryCleared" } ],
                              o.logs)
       ELSE /\ StepDone("cleanTelemetry", FALSE, refresh.results, << >>)
            /\ UNCHANGED << telemetry, backups, fsOps >>
    /\ UNCHANGED << env, storage, workspace, now, call, posted, uuid, mem, ui >>

\* if (clearWorkspace) { await this.clearWorkspaceStorage(appName); results.workspaceCleared = true }
RefreshClearWorkspace ==
    /\ AtStep("clearWorkspace")
    /\ IF Flag(refresh.options, "clearWorkspace")
       THEN LET o == clearWorkspaceStorage(workspace, env)
            IN  /\ workspace' = o.file
                /\ fsOps' = fsOps \o o.ops
                /\ StepDone("clearWorkspace", TRUE,
                            [ refresh.results EXCEPT !.keys = @ \cup { "workspaceCleared" } ],
                            o.logs)
       ELSE /\ StepDone("clearWorkspace", FALSE, refresh.results, << >>)
            /\ UNCHANGED << workspace, fsOps >>
    /\ UNCHANGED << env, storage, telemetry, backups, now, call, posted, uuid, mem, ui >>

\* if (clearCache) { results.cacheCleared = true }
RefreshClearCache ==
    /\ AtStep("clearCache")
    /\ IF Flag(refresh.options, "clearCache")
       THEN StepDone("clearCache", TRUE,
                     [ refresh.results EXCEPT !.keys = @ \cup { "cacheCleared" } ], << >>)
       ELSE StepDone("clearCache", FALSE, refresh.results, << >>)
    /\ UNCHANGED << env, storage, telemetry, backups, workspace, now, call, fsOps,
                    posted, uuid, mem, ui >>

NextRefresh ==
    \/ RefreshVSCodeDevice
    \/ Main
    \/ RefreshResetIdentifiers
    \/ RefreshCleanTelemetry
    \/ RefreshClearWorkspace
    \/ RefreshClearCache

SpecRefresh == InitRefresh /\ [][NextRefresh]_vars

(***************************************************************************)
(* generateNewUUID.  String.replace walks the template from left to right  *)
(* and calls the function once for each 'x' or 'y'; uuid.pos is the number *)
(* of template characters consumed and uuid.ch the character appended to   *)
(* the result for the last of them, so the returned string is the sequence *)
(* of the values of uuid.ch.                                               *)
(***************************************************************************)
template ==
    << "x","x","x","x","x","x","x","x","-",
       "x","x","x","x","-",
       "4","x","x","x","-",
       "y","x","x","x","-",
       "x","x","x","x","x","x","x","x","x","x","x","x" >>

\* Math.random() * 16 | 0
Draws == 0..15

RECURSIVE BitAnd(_, _)
\* a & b on non-negative integers
BitAnd(a, b) ==
    IF a = 0 \/ b = 0 THEN 0
    ELSE 2 * BitAnd(a \div 2, b \div 2) + (IF a % 2 = 1 /\ b % 2 = 1 THEN 1 ELSE 0)

RECURSIVE BitOr(_, _)
\* a | b on non-negative integers
BitOr(a, b) ==
    IF a = 0 THEN b
    ELSE IF b = 0 THEN a
    ELSE 2 * BitOr(a \div 2, b \div 2) + (IF a % 2 = 1 \/ b % 2 = 1 THEN 1 ELSE 0)

HexDigits ==
    << "0","1","2","3","4","5","6","7","8","9","a","b","c","d","e","f" >>

RECURSIVE toString16(_)
\* v.toString(16)
toString16(v) ==
    IF v < 16 THEN HexDigits[v + 1]
    ELSE toString16(v \div 16) \o HexDigits[(v % 16) + 1]

nibbleUnmasked(c, r) == r

\* c == 'x' ? r : (r & 0x3 | 0x8)
nibble(c, r) == IF c = "x" THEN r ELSE BitOr(BitAnd(r, 3), 8)

InitUUID ==
    /\ Idle
    /\ env = EnvNone
    /\ storage = AbsentFile
    /\ telemetry = "absent"
    /\ backups = NoBackups
    /\ workspace = NoWorkspace
    /\ now = 1

UuidFrame ==
    UNCHANGED << env, storage, telemetry, backups, workspace, now, fsOps, logs,
                 posted, refresh, mem, ui >>

GenerateNewUUID ==
    /\ pc = "idle"
    /\ call' = Call("generateNewUUID")
    /\ pc' = "replace"
    /\ UNCHANGED << ret, uuid >>
    /\ UuidFrame

\* the replacement function called on an 'x' or a 'y'
UuidReplace ==
    /\ pc = "replace"
    /\ uuid.pos < Len(template)
    /\ template[uuid.pos + 1] \in { "x", "y" }
    /\ \E r \in Draws :
         uuid' = [ pos |-> uuid.pos + 1,
                   ch |-> toString16(nibble(template[uuid.pos + 1], r)) ]
    /\ UNCHANGED << pc, call, ret >>
    /\ UuidFrame

\* a template character the pattern /[xy]/g does not match is kept
UuidKeep ==
    /\ pc = "replace"
    /\ uuid.pos < Len(template)
    /\ template[uuid.pos + 1] \notin { "x", "y" }
    /\ uuid' = [ pos |-> uuid.pos + 1, ch |-> template[uuid.pos + 1] ]
    /\ UNCHANGED << pc, call, ret >>
    /\ UuidFrame

UuidReturn ==
    /\ pc = "replace"
    /\ uuid.pos = Len(template)
    /\ pc' = "done"
    /\ ret' = [ NoRet EXCEPT !.kind = "uuid" ]
    /\ UNCHANGED << call, uuid >>
    /\ UuidFrame

NextUUID ==
    \/ GenerateNewUUID
    \/ UuidReplace
    \/ UuidKeep
    \/ UuidReturn

SpecUUID == InitUUID /\ [][NextUUID]_vars

(***************************************************************************)
(* resetDeviceIdentifiers next to the host application.  The tool and the  *)
(* editor are separate processes, so the editor can write storage.json     *)
(* between the tool's readFileSync and its writeFileSync.  mem.loaded is   *)
(* the file as read, mem.rec the object `storage` after the forEach,       *)
(* mem.ids the generated triple, mem.host what the editor last wrote.      *)
(***************************************************************************)
HostKeys == { "telemetry.machineId", "lastKnownMenubarData" }

HostValue(k) == "host:" \o k

saveStorageIfUnmodified(current, loaded, text, fault) ==
    IF current = loaded THEN WriteFile(current, text, fault) ELSE current

\* fs.writeFileSync(storagePath, text): the file read earlier is not
\* compared with the file being replaced
saveStorage(current, loaded, text, fault) == WriteFile(current, text, fault)

InitHost ==
    /\ Idle
    /\ env = EnvNone
    /\ storage \in StoreFiles
    /\ telemetry = "absent"
    /\ backups = NoBackups
    /\ workspace = NoWorkspace
    /\ now = 1

HostFrame ==
    UNCHANGED << env, telemetry, backups, workspace, now, posted, refresh, uuid, ui >>

\* resetDeviceIdentifiers up to the end of the forEach
ResetLoad ==
    /\ pc = "idle"
    /\ call' = Call("resetDeviceIdentifiers")
    /\ \E ids \in IdDraws, fault \in { "none", "read" } :
         IF ~existsSync(storage)
         THEN /\ ret' = Triple(ids[1], ids[2], ids[3])
              /\ pc' = "done"
              /\ UNCHANGED << logs, mem >>
         ELSE IF fault = "read" \/ ParseThrows(storage)
         THEN /\ ret' = Thrown
              /\ pc' = "done"
              /\ logs' = << Log("error", "Error resetting device identifiers:", "", 0) >>
              /\ mem' = mem
         ELSE /\ mem' = [ mem EXCEPT !.loaded = storage,
                                     !.rec = ResetKeys(JSONparse(storage), 1,
                                                       ids[1], ids[2], ids[3]),
                                     !.ids = Triple(ids[1], ids[2], ids[3]) ]
              /\ logs' = ResetLogs(JSONparse(storage))
              /\ pc' = "loaded"
              /\ ret' = ret
    /\ UNCHANGED << storage, fsOps >>
    /\ HostFrame

\* the editor saves storage.json with one of its keys updated
HostWrite ==
    /\ pc = "loaded"
    /\ mem.host = AbsentFile
    /\ \E k \in HostKeys :
         LET rec == IF storage.kind = "json" THEN storage.rec ELSE EmptyRec
             file == JsonFile("compact", Put(rec, k, HostValue(k)))
         IN  /\ storage' = file
             /\ mem' = [ mem EXCEPT !.host = file ]
    /\ UNCHANGED << pc, call, ret, fsOps, logs >>
    /\ HostFrame

\* fs.writeFileSync(storagePath, JSON.stringify(storage, null, 2)) and the return
ResetSave ==
    /\ pc = "loaded"
    /\ \E fault \in { "none", "write", "writeTruncated" } :
         /\ storage' = saveStorage(storage, mem.loaded, JSONstringify(mem.rec), fault)
         /\ fsOps' = fsOps \o WriteOps(getMachineIdPath(Null, env), fault)
         /\ IF fault = "none"
            THEN /\ ret' = mem.ids
                 /\ logs' = Append(logs, Log("info", "Device identifiers reset successfully", "", 0))
            ELSE /\ ret' = Thrown
                 /\ logs' = Append(logs, Log("error", "Error resetting device identifiers:", "", 0))
    /\ pc' = "done"
    /\ UNCHANGED << call, mem >>
    /\ HostFrame

NextHost ==
    \/ ResetLoad
    \/ HostWrite
    \/ ResetSave

SpecHost == InitHost /\ [][NextHost]_vars

(***************************************************************************)
(* A caller that resets and then asks for the device info: mem.ids holds   *)
(* the triple resetDeviceIdentifiers returned, ret what                    *)
(* getCurrentDeviceInfo returns afterwards.                                *)
(***************************************************************************)
IdentifierRecs ==
    { [ k \in S |-> "old:" \o k ] : S \in SUBSET IdentifierKeySet }

InitResetInfo ==
    /\ Idle
    /\ env = EnvNone
    /\ storage \in { JsonFile("pretty", r) : r \in IdentifierRecs }
    /\ telemetry = "absent"
    /\ backups = NoBackups
    /\ workspace = NoWorkspace
    /\ now = 1

\* const result = await resetDeviceIdentifiers()
ResetBeforeInfo ==
    /\ pc = "idle"
    /\ \E m \in NewIds, d \in NewIds, s \in NewIds, fault \in StoreFaults :
         LET o == resetDeviceIdentifiers(storage, env, m, d, s, fault)
         IN  /\ storage' = o.file
             /\ ret' = o.ret
             /\ mem' = [ mem EXCEPT !.ids = o.ret ]
             /\ fsOps' = o.ops
             /\ logs' = o.logs
             /\ pc' = IF o.ret.kind = "throw" THEN "done" ELSE "reset"
    /\ call' = Call("resetDeviceIdentifiers")
    /\ UNCHANGED << env, telemetry, backups, workspace, now, posted, refresh, uuid, ui >>

\* const info = await getCurrentDeviceInfo()
InfoAfterReset ==
    /\ pc = "reset"
    /\ \E fault \in { "none", "read" } :
         LET o == getCurrentDeviceInfo(storage, env, fault)
         IN  /\ storage' = o.file
             /\ ret' = o.ret
             /\ fsOps' = fsOps \o o.ops
             /\ logs' = logs \o o.logs
    /\ call' = Call("getCurrentDeviceInfo")
    /\ pc' = "done"
    /\ UNCHANGED << env, telemetry, backups, workspace, now, posted, aux >>

NextResetInfo ==
    \/ ResetBeforeInfo
    \/ InfoAfterReset

SpecResetInfo == InitResetInfo /\ [][NextResetInfo]_vars

(***************************************************************************)
(* The webview panel and its script.  ui.panels lists the panels created   *)
(* so far, a panel's number being its index; ui.currentPanel is            *)
(* WebviewPanel.currentPanel (0 for undefined); ui.outbox holds the        *)
(* messages the webview script has posted and the extension has not yet    *)
(* handled; ui.dialog is the confirmation overlay of the webview document. *)
(* The host disposes a panel once: closing it fires onDidDispose, and the  *)
(* _panel.dispose() inside dispose() finds it already disposed.            *)
(***************************************************************************)
\* the listeners the constructor registers into this._disposables
Listeners == << "onDidDispose", "onDidReceiveMessage" >>

NewPanel == [ disposed |-> FALSE, visible |-> TRUE, disposables |-> Listeners ]

createOrShowAlways(u) ==
    [ u EXCEPT !.panels = Append(@, NewPanel),
               !.currentPanel = Len(u.panels) + 1,
               !.outbox = << >> ]

\* WebviewPanel.createOrShow
createOrShow(u) ==
    IF u.currentPanel # 0
    THEN [ u EXCEPT !.panels[u.currentPanel].visible = TRUE ]
    ELSE [ u EXCEPT !.panels = Append(@, NewPanel),
                    !.currentPanel = Len(u.panels) + 1,
                    !.outbox = << >> ]

RECURSIVE PopAll(_)
\* while (this._disposables.length) { const x = this._disposables.pop(); ... }
PopAll(disposables) ==
    IF Len(disposables) = 0 THEN disposables
    ELSE PopAll(SubSeq(disposables, 1, Len(disposables) - 1))

\* WebviewPanel.prototype.dispose on panel number id
dispose(u, id) ==
    [ u EXCEPT !.currentPanel = 0,
               !.panels[id].disposed = TRUE,
               !.panels[id].visible = FALSE,
               !.panels[id].disposables = PopAll(@),
               !.outbox = << >> ]

InitWebview ==
    /\ Idle
    /\ env = EnvNone
    /\ storage \in { AbsentFile, GarbageFile,
                     JsonFile("compact", [ k \in { "machineId" } |-> "old:machineId" ]) }
    /\ telemetry = "absent"
    /\ backups = NoBackups
    /\ workspace = NoWorkspace
    /\ now = 1

WebviewFrame ==
    UNCHANGED << env, telemetry, backups, workspace, now, pc, refresh, uuid, mem >>

UiOnly == UNCHANGED << storage, ret, fsOps, logs, posted >>

\* command 'vscode-learning-extension.openWebview'
OpenWebview ==
    /\ ui.currentPanel # 0 \/ Len(ui.panels) < MaxPanels
    /\ ui' = createOrShow(ui)
    /\ call' = Call("openWebview")
    /\ UiOnly
    /\ WebviewFrame

\* the user brings another editor tab to the front
HidePanel ==
    /\ \E id \in DOMAIN ui.panels :
         /\ ~ui.panels[id].disposed
         /\ ui.panels[id].visible
         /\ ui' = [ ui EXCEPT !.panels[id].visible = FALSE ]
    /\ call' = Call("hide")
    /\ UiOnly
    /\ WebviewFrame

\* the user closes a panel: onDidDispose fires and the listener calls dispose()
ClosePanel ==
    /\ \E id \in DOMAIN ui.panels :
         /\ ~ui.panels[id].disposed
         /\ ui' = dispose(ui, id)
    /\ call' = Call("dispose")
    /\ UiOnly
    /\ WebviewFrame

CanClick ==
    /\ ui.currentPanel # 0
    /\ ui.panels[ui.currentPanel].visible
    /\ Len(ui.outbox) < MaxOutbox

\* click on the button 'resetDevice'
ClickResetDevice ==
    /\ CanClick
    /\ ui' = [ ui EXCEPT !.outbox = Append(@, "resetDeviceIds") ]
    /\ call' = Call("click:resetDevice")
    /\ UiOnly
    /\ WebviewFrame

\* click on the button 'getDeviceInfo'
ClickGetDeviceInfo ==
    /\ CanClick
    /\ ui' = [ ui EXCEPT !.outbox = Append(@, "getCurrentDeviceInfo") ]
    /\ call' = Call("click:getDeviceInfo")
    /\ UiOnly
    /\ WebviewFrame

\* onDidReceiveMessage: _handleMessage on the oldest posted message
ReceiveMessage ==
    /\ ui.currentPanel # 0
    /\ Len(ui.outbox) > 0
    /\ ui' = [ ui EXCEPT !.outbox = Tail(@) ]
    /\ IF Head(ui.outbox) = "resetDeviceIds"
       THEN /\ \E ids \in IdDraws, fault \in StoreFaults :
                 LET o == resetDeviceIdentifiers(storage, env, ids[1], ids[2], ids[3], fault)
                 IN  /\ storage' = o.file
                     /\ ret' = o.ret
                     /\ fsOps' = o.ops
                     /\ logs' = o.logs
                     /\ posted' = handleResetDeviceIds(o.ret)
            /\ call' = Call("handleMessage:resetDeviceIds")
       ELSE /\ \E fault \in { "none", "read" } :
                 LET o == getCurrentDeviceInfo(storage, env, fault)
                 IN  /\ storage' = o.file
                     /\ ret' = o.ret
                     /\ fsOps' = o.ops
                     /\ logs' = o.logs
                     /\ posted' = handleGetCurrentDeviceInfo(o.ret, env)
            /\ call' = Call("handleMessage:getCurrentDeviceInfo")
    /\ WebviewFrame

NextWebview ==
    \/ OpenWebview
    \/ HidePanel
    \/ ClosePanel
    \/ ClickResetDevice
    \/ ClickGetDeviceInfo
    \/ ReceiveMessage

SpecWebview == InitWebview /\ [][NextWebview]_vars

(***************************************************************************)
(* Properties.                                                             *)
(***************************************************************************)
HasError(lg) == \E i \in DOMAIN lg : lg[i].level = "error"

ResetOps == { "resetDeviceIdentifiers", "handleMessage:resetDeviceIds" }

\* a step that is a whole call of resetDeviceIdentifiers which returned
ResetReturned ==
    /\ pc = "idle"
    /\ call'.op \in ResetOps
    /\ ret'.kind = "triple"

\* the identifier the claim assigns to a recognized key
ClaimedId(k, r) ==
    IF k \in { "telemetry.machineId", "machineId" } THEN r.machineId
    ELSE IF Includes(KeyChars[k], deviceChars) THEN r.deviceId
    ELSE r.sessionId

\* C1: after resetDeviceIdentifiers succeeds on an existing identity store,
\* every recognized key that was present with a non-empty value holds the
\* returned machineId ('telemetry.machineId', 'machineId'), the returned
\* deviceId (keys containing 'device') or the returned sessionId (all other
\* recognized keys), and the store on disk is the JSON text of that record.
C1_ResetWritesReturnedIds ==
    [][ (ResetReturned /\ existsSync(storage)) =>
          /\ storage'.kind = "json"
          /\ FsOp("writeFileSync", getMachineIdPath(Null, env)) =
                fsOps'[Len(fsOps')]
          /\ \A k \in IdentifierKeySet :
                (k \in DOMAIN storage.rec /\ storage.rec[k] # "") =>
                    /\ k \in DOMAIN storage'.rec
                    /\ storage'.rec[k] = ClaimedId(k, ret')
                    /\ storage'.rec[k] \in NewIds ]_vars

C1_Witness ==
    /\ pc = "done"
    /\ call.op = "resetDeviceIdentifiers"
    /\ ret.kind = "triple"
    /\ storage.kind = "json"
    /\ DOMAIN storage.rec = { "telemetry.devDeviceId", "machineId" }
    /\ storage.rec["telemetry.devDeviceId"] = ret.sessionId
    /\ storage.rec["machineId"] = ret.machineId
    /\ Cardinality({ ret.machineId, ret.deviceId, ret.sessionId }) = 3

\* C2: a call of resetDeviceIdentifiers that returns leaves the set of keys
\* of the identity record as it was (an absent recognized key is not
\* created, an absent store stays absent) and leaves the value of every key
\* that is not a recognized identifier key as it was.
C2_ResetFrame ==
    [][ ResetReturned =>
          IF existsSync(storage)
          THEN /\ storage'.kind = "json"
               /\ DOMAIN storage'.rec = DOMAIN storage.rec
               /\ \A k \in DOMAIN storage.rec \ IdentifierKeySet :
                     storage'.rec[k] = storage.rec[k]
          ELSE storage' = storage ]_vars

C2_Witness ==
    /\ pc = "done"
    /\ call.op = "resetDeviceIdentifiers"
    /\ ret.kind = "triple"
    /\ storage.kind = "json"
    /\ DOMAIN storage.rec = { "machineId", cacheKey("user42") }
    /\ storage.rec["machineId"] = ret.machineId
    /\ storage.rec[cacheKey("user42")] = "old:scoreInfo_user42"

\* C3: when the identity store does not exist, resetDeviceIdentifiers returns
\* a result that is neither an identifier triple nor an error, and the
\* 'resetDeviceIds' handler shows the 'no storage file was found' warning.
C3_NoStorageResult ==
    (pc = "done" /\ call.op = "handleMessage:resetDeviceIds"
        /\ ~existsSync(storage)) =>
        /\ ret.kind \notin { "triple", "throw" }
        /\ Notify("showWarningMessage", NoStorageMessage) = posted[Len(posted)]

MutationOps ==
    { "resetDeviceIdentifiers", "cleanTelemetryData", "clearWorkspaceStorage",
      "clearUserCache" }

TargetAbsent(op) ==
    CASE op \in { "resetDeviceIdentifiers", "clearUserCache" } -> ~existsSync(storage)
      [] op = "cleanTelemetryData" -> telemetry = "absent"
      [] op = "clearWorkspaceStorage" -> ~workspace.exists
      [] OTHER -> FALSE

\* C4: a mutation operation whose target path does not exist completes in
\* that step without raising or logging an error, makes no filesystem call
\* that writes, creates or deletes, and leaves the filesystem as it was.
C4_AbsentTargetNoOp ==
    [][ (pc = "idle" /\ call'.op \in MutationOps /\ TargetAbsent(call'.op)) =>
          /\ pc' = "done"
          /\ ret'.kind \in { "triple", "undefined" }
          /\ ~HasError(logs')
          /\ fsOps' = << >>
          /\ << storage', telemetry', backups', workspace' >> =
                << storage, telemetry, backups, workspace >> ]_vars

C4_Witness ==
    /\ pc = "done"
    /\ call.op = "cleanTelemetryData"
    /\ telemetry = "absent"
    /\ ret = RetUndefined
    /\ fsOps = << >>
    /\ logs = << >>

\* C5: in cleanTelemetryData the telemetry database is deleted only by the
\* unlink step, only once the backup copy holds its content, and every step
\* leaves the content that was at the original path at the original path or
\* at a backup path.
C5_BackupBeforeDelete ==
    [][ telemetry # "absent" =>
          /\ (telemetry' = telemetry \/ \E t \in Times : backups'[t] = telemetry)
          /\ telemetry' # telemetry =>
                /\ pc = "unlink"
                /\ backups[call.backupAt] = telemetry
                /\ backups' = backups ]_vars

C5_Witness ==
    /\ pc = "done"
    /\ call.op = "cleanTelemetryData"
    /\ call.backupAt \in Times
    /\ telemetry \in TelemetryContents
    /\ backups[call.backupAt] = "partial"
    /\ HasError(logs)
    /\ \A i \in DOMAIN fsOps : fsOps[i].fn # "unlinkSync"

ClaimedBackupPath(telemetryPath, millis) ==
    SubSeq(telemetryPath, 1, Len(telemetryPath) - 1)
      \o << telemetryPath[Len(telemetryPath)] \o ".backup." \o ToString(millis) >>

\* C6: when the telemetry database exists and no step of cleanTelemetryData
\* fails, then on return the file <telemetryPath>.backup.<Date.now()> holds
\* the content the database had, the database path no longer exists, and
\* the filesystem calls made are that copy followed by the unlink.
C6_BackupThenGone ==
    [][ /\ (pc = "idle" /\ call'.op = "cleanTelemetryData" /\ telemetry # "absent")
            => call'.backupAt = now
        /\ (call'.op = "cleanTelemetryData" /\ pc # "done" /\ pc' = "done"
              /\ telemetry # "absent" /\ ~HasError(logs')) =>
             /\ telemetry' = "absent"
             /\ backups'[call.backupAt] = telemetry
             /\ fsOps' = << FsOp("copyFileSync",
                                 ClaimedBackupPath(getTelemetryPath(Null, env),
                                                   call.backupAt)),
                            FsOp("unlinkSync", getTelemetryPath(Null, env)) >> ]_vars

C6_Witness ==
    /\ pc = "done"
    /\ call.op = "cleanTelemetryData"
    /\ call.backupAt \in Times
    /\ telemetry = "absent"
    /\ backups[call.backupAt] \in TelemetryContents
    /\ Len(fsOps) = 2
    /\ ~HasError(logs)

ClaimedDirectory(kind) == kind \in { "dir", "lockedDir" }

DirectoryCount(items) ==
    Cardinality({ i \in DOMAIN items : ClaimedDirectory(items[i]) })

C8_IndependentRemoval ==
    (pc = "done" /\ call.op = "clearWorkspaceStorage" /\ workspace.exists) =>
        \A i \in DOMAIN workspace.items : workspace.items[i] # "dir"

\* C9: clearUserCache(userId) with a non-empty userId, on a store that
\* parses and with no I/O failure, leaves the store without the key
\* 'scoreInfo_<userId>' (whatever value it held).
C9_RemovesPresentKey ==
    (pc = "done" /\ call.op = "clearUserCache" /\ Truthy(call.userId)
        /\ storage.kind = "json" /\ ~HasError(logs)) =>
        cacheKey(call.userId) \notin DOMAIN storage.rec

BothExist(rec, prefixed, bare) == { prefixed, bare } \subseteq DOMAIN rec

\* C10: getCurrentDeviceInfo returns the value of the 'telemetry.*' key,
\* whatever string it holds, when both that key and the bare key exist in
\* the store.
C10_PrefersPrefixedKey ==
    (pc = "done" /\ call.op = "getCurrentDeviceInfo" /\ ret.kind = "info") =>
        /\ BothExist(storage.rec, "telemetry.machineId", "machineId")
              => ret.machineId = storage.rec["telemetry.machineId"]
        /\ BothExist(storage.rec, "telemetry.devDeviceId", "deviceId")
              => ret.deviceId = storage.rec["telemetry.devDeviceId"]
        /\ BothExist(storage.rec, "telemetry.sessionId", "sessionId")
              => ret.sessionId = storage.rec["telemetry.sessionId"]

InfoOps == { "getCurrentDeviceInfo", "handleMessage:getCurrentDeviceInfo" }

\* C11: on an absent identity store getCurrentDeviceInfo returns null and
\* logs no error, the store stays absent, and the 'getCurrentDeviceInfo'
\* handler posts one 'deviceInfo' message carrying message, storagePath,
\* variant and userDataPath, not an 'error' message.
C11_AbsentStoreFallback ==
    (pc = "done" /\ call.op \in InfoOps /\ ~existsSync(storage)) =>
        /\ ret = RetNull
        /\ ~HasError(logs)
        /\ fsOps = << >>
        /\ call.op = "handleMessage:getCurrentDeviceInfo" =>
              /\ Len(posted) = 1
              /\ posted[1].via = "postMessage"
              /\ posted[1].command = "deviceInfo"
              /\ posted[1].data =
                    [ kind |-> "fallback", message |-> NoInfoMessage,
                      storagePath |-> << homeDir, supportedApps[detectVSCodeVariant(env)],
                                         "User", "globalStorage", "storage.json" >>,
                      variant |-> detectVSCodeVariant(env),
                      userDataPath |-> << homeDir, supportedApps[detectVSCodeVariant(env)] >> ]

C11_Witness ==
    /\ pc = "done"
    /\ call.op = "handleMessage:getCurrentDeviceInfo"
    /\ ~existsSync(storage)
    /\ ret = RetNull
    /\ posted[1].command = "deviceInfo"
    /\ posted[1].data.kind = "fallback"
    /\ posted[1].data.variant = "Cursor"

\* C12: when the identity store exists but cannot be read or parsed,
\* getCurrentDeviceInfo gives its caller an error outcome, not the null it
\* returns for an absent file, and the handler posts an 'error' message.
C12_InfoSurfacesErrors ==
    (pc = "done" /\ call.op \in InfoOps /\ storage = GarbageFile) =>
        /\ ret # RetNull
        /\ call.op = "handleMessage:getCurrentDeviceInfo" =>
              posted[Len(posted)].command = "error"

ClaimedVariant(e) ==
    IF e["VSCODE_PID"] # Undefined THEN "Code"
    ELSE IF e["WINDSURF_PID"] # Undefined THEN "Windsurf"
    ELSE IF e["CURSOR_PID"] # Undefined THEN "Cursor"
    ELSE "Code"

\* C17: detectVSCodeVariant returns the first of Code, Windsurf, Cursor whose
\* marker VSCODE_PID, WINDSURF_PID, CURSOR_PID is present in the environment,
\* whatever the marker's value, and 'Code' when none is present.
C17_FirstPresentMarker ==
    (pc = "done" /\ call.op = "detectVSCodeVariant") =>
        ret.variant = ClaimedVariant(env)

Rank(name) ==
    CASE name = "resetIdentifiers" -> 1
      [] name = "cleanTelemetry" -> 2
      [] name = "clearWorkspace" -> 3
      [] name = "clearCache" -> 4

Refreshing == refresh.caller # "none" /\ refresh.step > 0

\* C13: refreshVSCodeDevice runs its sub-operations in the order reset
\* identifiers, clean telemetry, clear workspace, clear cache: whenever a
\* sub-operation has been started, every enabled sub-operation that comes
\* earlier in that order was started and finished before it, and no
\* sub-operation runs twice, for every combination of the four flags.
C13_FixedOrder ==
    Refreshing =>
        \A j \in DOMAIN refresh.started :
            /\ \A i \in 1..(j - 1) :
                  Rank(refresh.started[i]) < Rank(refresh.started[j])
            /\ \A f \in OptionNames :
                  (Flag(refresh.options, f) /\ Rank(f) < Rank(refresh.started[j])) =>
                      \E i \in 1..(j - 1) : refresh.started[i] = f

C13_Witness ==
    /\ pc = "done"
    /\ refresh.caller = "direct"
    /\ refresh.options["clearWorkspace"] = "true"
    /\ refresh.started =
          << "resetIdentifiers", "cleanTelemetry", "clearWorkspace", "clearCache" >>
    /\ ret.kind = "results"

Started(f) == \E i \in DOMAIN refresh.started : refresh.started[i] = f

\* C14: a failing sub-operation never keeps the remaining enabled ones from
\* running: when refreshVSCodeDevice has ended, every enabled sub-operation
\* has been run and refresh has returned a result, not thrown.
C14_FailureDoesNotAbort ==
    (pc = "done" /\ Refreshing) =>
        /\ ret.kind = "results"
        /\ \A f \in { "cleanTelemetry", "clearWorkspace", "clearCache" } :
              Flag(refresh.options, f) => Started(f)

LoggedError(msg) ==
    \E i \in DOMAIN logs : logs[i].level = "error" /\ logs[i].msg = msg

\* C15: a failure of cleanTelemetryData or clearWorkspaceStorage during
\* refresh is reported in the returned result: the result does not say
\* telemetryCleared / workspaceCleared for a sub-operation that failed.
C15_FailuresRecorded ==
    (pc = "done" /\ Refreshing /\ ret.kind = "results") =>
        /\ LoggedError("Error cleaning telemetry:") =>
              "telemetryCleared" \notin refresh.results.keys
        /\ LoggedError("Error clearing workspace storage:") =>
              "workspaceCleared" \notin refresh.results.keys

\* C16: when refreshVSCodeDevice has ended, a sub-operation has run if and
\* only if its flag, after the defaults, is true.
C16_RunsIffFlag ==
    (pc = "done" /\ Refreshing) =>
        \A f \in OptionNames : Started(f) <=> Flag(refresh.options, f)

\* C19: main changes the filesystem only under '--reset' or '-r'.  Without
\* them no step of main writes or deletes a file, whatever other arguments
\* are given; with them refresh starts with reset and cache enabled,
\* telemetry cleaning iff '--telemetry' and workspace clearing iff
\* '--workspace' is among the arguments.
C19_MainMutatesOnlyOnReset ==
    [][ refresh'.caller = "main" =>
          IF "--reset" \in refresh'.args \/ "-r" \in refresh'.args
          THEN /\ Flag(refresh'.options, "resetIdentifiers")
               /\ Flag(refresh'.options, "clearCache")
               /\ Flag(refresh'.options, "cleanTelemetry") <=> "--telemetry" \in refresh'.args
               /\ Flag(refresh'.options, "clearWorkspace") <=> "--workspace" \in refresh'.args
               /\ refresh.caller = "none" => pc' = "refresh"
          ELSE /\ UNCHANGED << storage, telemetry, backups, workspace >>
               /\ fsOps' = << >>
               /\ pc' = "done"
      ]_vars

C19_Witness ==
    /\ pc = "done"
    /\ call.op = "main"
    /\ refresh.args = { "--telemetry", "--workspace", "--info" }
    /\ telemetry = "db-1"
    /\ workspace.exists /\ workspace.items[1] = "dir"
    /\ storage.kind = "json"
    /\ fsOps = << >>

LowerHex == { HexDigits[i] : i \in DOMAIN HexDigits }

\* C18: whatever the random draws, generateNewUUID returns 36 characters:
\* hyphens at positions 9, 14, 19 and 24, '4' at position 15, one of 8, 9,
\* a, b at position 20, and a lowercase hexadecimal digit everywhere else.
C18_UuidShape ==
    /\ uuid.pos > 0 =>
          CASE uuid.pos \in { 9, 14, 19, 24 } -> uuid.ch = "-"
            [] uuid.pos = 15 -> uuid.ch = "4"
            [] uuid.pos = 20 -> uuid.ch \in { "8", "9", "a", "b" }
            [] OTHER -> uuid.ch \in LowerHex
    /\ (pc = "done" /\ call.op = "generateNewUUID") => uuid.pos = 36

C18_Witness ==
    /\ call.op = "generateNewUUID"
    /\ uuid.pos = 20
    /\ uuid.ch = "b"

\* C20: the write that ends resetDeviceIdentifiers replaces whatever
\* storage.json holds by then with the content computed from the file read
\* earlier, and the call returns its triple without an error: an update the
\* host made in between is lost unnoticed.
C20_LastWriterWins ==
    [][ (pc = "loaded" /\ pc' = "done" /\ ret'.kind # "throw") =>
          /\ storage' = [ kind |-> "json", fmt |-> "pretty", rec |-> mem.rec ]
          /\ ret' = mem.ids
          /\ ~HasError(logs')
          /\ mem.host # AbsentFile => storage' # mem.host
      ]_vars

C20_Witness ==
    /\ pc = "done"
    /\ call.op = "resetDeviceIdentifiers"
    /\ mem.host.kind = "json"
    /\ Get(mem.host.rec, "lastKnownMenubarData") = "host:lastKnownMenubarData"
    /\ Get(storage.rec, "lastKnownMenubarData") = Undefined
    /\ ret.kind = "triple"
    /\ ~HasError(logs)

\* C22: resetDeviceIdentifiers on an identity store whose content is not
\* valid JSON throws to its caller instead of returning a triple, makes no
\* write and leaves the file as it was; the 'resetDeviceIds' handler then
\* posts an 'error' message.
C22_MalformedStorePropagates ==
    [][ (pc = "idle" /\ storage = GarbageFile /\ call'.op \in ResetOps) =>
          /\ ret' = Thrown
          /\ ret'.kind # "triple"
          /\ storage' = storage
          /\ fsOps' = << >>
          /\ HasError(logs')
          /\ call'.op = "handleMessage:resetDeviceIds" =>
                /\ posted'[1].via = "postMessage"
                /\ posted'[1].command = "error"
      ]_vars

C22_Witness ==
    /\ pc = "done"
    /\ call.op = "resetDeviceIdentifiers"
    /\ storage = GarbageFile
    /\ fsOps = << >>
    /\ ret = Thrown
    /\ HasError(logs)

\* C23: when resetDeviceIdentifiers has succeeded on a store holding all six
\* recognized keys with non-empty values, the getCurrentDeviceInfo that
\* follows returns the machineId, deviceId and sessionId of the triple the
\* reset returned.
C23_InfoMatchesReset ==
    (/\ pc = "done"
     /\ call.op = "getCurrentDeviceInfo"
     /\ mem.ids.kind = "triple"
     /\ ret.kind = "info"
     /\ DOMAIN storage.rec =
           { "telemetry.machineId", "telemetry.devDeviceId", "telemetry.sessionId",
             "machineId", "deviceId", "sessionId" }) =>
        /\ ret.machineId = mem.ids.machineId
        /\ ret.deviceId = mem.ids.deviceId
        /\ ret.sessionId = mem.ids.sessionId

\* C21: the webview sends 'resetDeviceIds', and the extension runs the
\* reset, only after the confirmation dialog has been shown and accepted.
C21_ResetNeedsConfirmation ==
    /\ (\E i \in DOMAIN ui.outbox : ui.outbox[i] = "resetDeviceIds") =>
          ui.dialog = "accepted"
    /\ (ui.panels # << >> /\ call.op = "handleMessage:resetDeviceIds") =>
          ui.dialog = "accepted"

Live(u) == { i \in DOMAIN u.panels : ~u.panels[i].disposed }

\* C24: in every step of the panel's life at most one panel is live and
\* currentPanel is undefined when none is live and that panel otherwise;
\* createOrShow with a live panel reveals it and creates nothing; dispose
\* leaves currentPanel undefined and the panel's disposables empty; and
\* createOrShow with no live panel creates a fresh one and makes it current.
C24_SinglePanel ==
    [][ /\ Cardinality(Live(ui')) <= 1
        /\ Live(ui') = IF ui'.currentPanel = 0 THEN {} ELSE { ui'.currentPanel }
        /\ (call'.op = "openWebview" /\ Live(ui) # {}) =>
              /\ Len(ui'.panels) = Len(ui.panels)
              /\ ui'.currentPanel = ui.currentPanel
              /\ ui'.panels[ui'.currentPanel].visible
        /\ (call'.op = "openWebview" /\ Live(ui) = {}) =>
              /\ Len(ui'.panels) = Len(ui.panels) + 1
              /\ ui'.currentPanel = Len(ui.panels) + 1
              /\ ~ui'.panels[ui'.currentPanel].disposed
              /\ Len(ui'.panels[ui'.currentPanel].disposables) = 2
        /\ call'.op = "dispose" =>
              /\ ui'.currentPanel = 0
              /\ \A i \in DOMAIN ui'.panels :
                    ui'.panels[i].disposed => ui'.panels[i].disposables = << >>
      ]_vars

C24_Witness ==
    /\ call.op = "openWebview"
    /\ Len(ui.panels) = 2
    /\ ui.panels[1].disposed
    /\ ui.panels[1].disposables = << >>
    /\ ~ui.panels[2].disposed
    /\ ui.currentPanel = 2

====
